---- MODULE Spec2Model ----
(***************************************************************************)
(* PPO agent (src/src/agents/PPOAgent.py) and its trainer                  *)
(* (src/src/trainings/agent_trainer.py) as a state machine.                *)
(*                                                                         *)
(* Networks, losses and gradients are opaque: an optimizer is its number   *)
(* of step() calls, a scheduler its number of step() calls, the normalizer *)
(* its number of folded states, a loss is finite or not.  The rollout      *)
(* buffer is the ordered sequence of stored transitions; each transition   *)
(* keeps its done flag, the trainer episode it was collected in and the    *)
(* number of the update call that stored it.                               *)
(*                                                                         *)
(* Specifications:                                                         *)
(*   Spec            the agent under any caller of act / update /          *)
(*                   update_networks                                       *)
(*   SpecPerform     _perform_update on its own, on any buffer length and  *)
(*                   batch size                                            *)
(*   SpecGae         the data path of one pass: the permutation, the       *)
(*                   minibatches gathered from it and the next-value each  *)
(*                   position is given by the GAE recursion                *)
(*   SpecMetrics     the accumulators and averages of _perform_update      *)
(*   SpecCompute     the backward recursion of compute_gae                 *)
(*   SpecLoss        the clipped policy loss of one sample                 *)
(*   SpecTrain       AgentTrainer.train driving the agent                  *)
(*   SpecEval        AgentTrainer.evaluate on its own                      *)
(*   SpecCheckpoint  train, from_checkpoint, then train again              *)
(***************************************************************************)
EXTENDS Integers, Sequences, FiniteSets, TLC

(* ------------------------------ bounds --------------------------------- *)
\* training.buffer_size of the configuration: capacity of the rollout buffer
BufferCapacity == 5
\* training.batch_size is drawn from 1..MaxBatchSize
MaxBatchSize == 2
\* training.num_epochs is drawn from 0..MaxEpochs
MaxEpochs == 2
\* number of Agent.update calls in one run
MaxUpdateCalls == 6
\* number of update_networks calls the caller makes itself in one run
MaxDirectCalls == 1
\* network/optimizer-level errors raised in one run
MaxErrors == 1
\* SpecPerform: buffer lengths 0..MaxChunkN, batch sizes 1..MaxChunkB
MaxChunkN == 10
MaxChunkB == 5
\* SpecGae: buffer lengths 2..MaxGaeN
MaxGaeN == 5
\* per-minibatch statistics (advantage mean, value mean) range over 0..MaxMean
MaxMean == 1
\* length of the arrays given to compute_gae
MaxGaeT == 3
\* the policy loss: ratios are multiples of 1/RatioScale in 0..MaxRatio/RatioScale
RatioScale == 4
MaxRatio == 12
MaxAdvantage == 3
\* SpecTrain: episodes.train_episodes and episodes.max_steps_per_episode
TrainEpisodes == 3
\* eval_frequency and early_stop_patience of the configuration range over 1..Max
MaxEvalFrequency == 2
MaxPatience == 2
\* eval_episodes of the configuration
EvalEpisodes == 1
\* save_frequency of the configuration ranges over 1..MaxSaveFrequency
MaxSaveFrequency == 1
MaxStepsPerEpisode == 2

(* ------------------------- program constants --------------------------- *)
\* minimum_required_samples = int(batch_size * 2)
MinSamplesFactor == 2
\* a chunk is skipped when end - start < current_batch_size * 0.8  (0.8 = 4/5)
SkipNum == 4
SkipDen == 5

VARIABLES
    batch_size,         \* self.batch_size
    num_epochs,         \* self.num_epochs
    buffer,             \* self.buffer: stored transitions, temporal order
    norm_count,         \* self.state_normalizer: number of states folded in
    value_stats,        \* the statistics under which update last normalized a state
    store_calls,        \* number of self.buffer.store calls made
    actor_opt_steps,    \* self.actor_optimizer: step() calls
    critic_opt_steps,   \* self.critic_optimizer: step() calls
    actor_sched_steps,  \* self.actor_scheduler: step() calls
    critic_sched_steps, \* self.critic_scheduler: step() calls
    params_finite,      \* no optimizer step has applied a NaN/Inf loss
    pc,                 \* position inside update/update_networks/_perform_update
    epoch,              \* passes started by `for _ in range(self.num_epochs)`
    start,              \* next value of `for start in range(0, N, B)`
    cur_batch,          \* current_batch_size argument of _perform_update
    update_count,       \* update_count local of _perform_update
    last_op,            \* the API call being served / last served
    result,             \* what that call returned (or that it raised)
    entry,              \* the agent's state when that call was entered
    completed_updates,  \* update_networks calls that ran to their return
    consumed,           \* ids of the transitions held at a completed update
    errors,             \* network/optimizer-level errors raised so far
    direct_calls,       \* update_networks calls made by the caller itself
    indices,            \* SpecGae: torch.randperm(len(buffer)) of the pass
    batch_indices,      \* SpecGae: indices[start:end] of the last minibatch
    tpc,                \* position of the trainer
    next_episode,       \* iterator of `for self.episode in range(train_episodes)`
    episode,            \* self.episode
    step,               \* `step` of _run_episode
    train_steps,        \* self.train_steps
    total_advantage_mean, \* SpecMetrics: total_advantage_mean of _perform_update
    total_value_mean,   \* SpecMetrics: total_value_mean of _perform_update
    minibatch_means,    \* SpecMetrics: the advantage/value mean of each minibatch
    averaged,           \* SpecMetrics: averaged fields of the returned dict
    rewards,            \* SpecCompute: compute_gae argument
    values,             \* SpecCompute: compute_gae argument
    dones,              \* SpecCompute: compute_gae argument
    next_value,         \* SpecCompute: compute_gae argument
    gamma,              \* SpecCompute: compute_gae argument
    gae_lambda,         \* SpecCompute: compute_gae argument (lambda)
    gae_t,              \* SpecCompute: loop index t of the backward recursion
    gae,                \* SpecCompute: the running gae
    advantages,         \* SpecCompute: advantages written so far
    returns,            \* SpecCompute: returns written so far
    gpc,                \* SpecCompute: position in compute_gae
    ratio,              \* SpecLoss: ratio = exp(log_probs - old_log_probs), one sample
    advantage,          \* SpecLoss: the advantage of that sample
    clip_range,         \* SpecLoss: self.clip_range, in units of 1/RatioScale
    policy_loss,        \* SpecLoss: -min(policy_loss_1, policy_loss_2) of the sample
    lpc,                \* SpecLoss: position in the loss computation
    eval_frequency,     \* self.eval_frequency
    early_stop_patience, \* self.early_stop_patience
    episode_return,     \* episode_return of _run_episode
    train_return_item,  \* train_return_item of train: <<>> is None
    eval_return_item,   \* eval_return_item of train: <<>> is None
    train_returns,      \* self.train_returns
    eval_returns,       \* self.eval_returns
    best_eval_return,   \* best_eval_return of train
    episodes_without_improvement, \* episodes_without_improvement of train
    eval_i,             \* `i` of evaluate
    eval_sum,           \* sum of the eval_returns list of evaluate
    eval_entry,         \* the agent and train_steps when evaluate was entered
    completed_returns,  \* returns of the training episodes that ran to their end
    evals_run,          \* evaluate calls that returned
    save_frequency,     \* self.save_frequency
    checkpoint,         \* the training state file written by _save_checkpoint
    avg_metrics,        \* self.avg_metrics: length of each of its lists
    num_updates,        \* num_updates of _run_episode
    resumed_from,       \* episode of the checkpoint the trainer was built from
    env_raised          \* env.step has raised an exception

cfgVars == <<batch_size, num_epochs>>
agentVars == <<buffer, norm_count, value_stats, store_calls, actor_opt_steps, critic_opt_steps,
               actor_sched_steps, critic_sched_steps, params_finite, pc, epoch,
               start, cur_batch, update_count, last_op, result, entry,
               completed_updates, consumed, errors, direct_calls>>
gaeVars == <<indices, batch_indices>>
trainerVars == <<tpc, next_episode, episode, step, train_steps>>
metricVars == <<total_advantage_mean, total_value_mean, minibatch_means, averaged>>
computeVars == <<rewards, values, dones, next_value, gamma, gae_lambda, gae_t,
                 gae, advantages, returns, gpc>>
lossVars == <<ratio, advantage, clip_range, policy_loss, lpc>>
trainVars == <<eval_frequency, early_stop_patience, episode_return,
               train_return_item, eval_return_item, train_returns, eval_returns,
               best_eval_return, episodes_without_improvement, eval_i, eval_sum,
               eval_entry, completed_returns, evals_run>>
ckptVars == <<save_frequency, checkpoint, avg_metrics, num_updates, resumed_from,
              env_raised>>
auxVars == <<metricVars, computeVars, lossVars, trainVars, ckptVars>>
\* everything outside one group of variables
notMetricVars == <<cfgVars, gaeVars, trainerVars, computeVars, lossVars, trainVars,
                   ckptVars>>
notComputeVars == <<cfgVars, agentVars, gaeVars, trainerVars, metricVars, lossVars,
                    trainVars, ckptVars>>
notLossVars == <<cfgVars, agentVars, gaeVars, trainerVars, metricVars, computeVars,
                 trainVars, ckptVars>>
vars == <<cfgVars, agentVars, gaeVars, trainerVars, auxVars>>

Min(a, b) == IF a < b THEN a ELSE b

(* ------------------------------ buffer --------------------------------- *)
Transition(ep, done, id) == [ep |-> ep, done |-> done, id |-> id]

BufferLen(buf) == Len(buf)

BufferFullOffByOne(buf) == Len(buf) > BufferCapacity
BufferFull(buf) == Len(buf) >= BufferCapacity

BufferStore(buf, tr) == Append(buf, tr)

BufferClear(buf) == <<>>

Ids(buf) == {buf[i].id : i \in DOMAIN buf}

(* ----------------------------- normalizer ------------------------------ *)
\* RunningNormalizer.normalize(x): reads the statistics, changes none
NormalizerNormalize(n) == n

\* RunningNormalizer.update(x): folds one state into the statistics
NormalizerUpdate(n) == n + 1

(* ------------------------------ results -------------------------------- *)
Metrics(kind, n, b, avail) ==
    [kind |-> kind, updates_performed |-> n, batch_size_used |-> b,
     available_samples |-> avail]

NoResult == Metrics("none", 0, 0, 0)
EmptyDict == Metrics("empty", 0, 0, 0)
ActionOut == Metrics("action", 0, 0, 0)
NoneValue == Metrics("None", 0, 0, 0)
Raised(what) == Metrics(what, 0, 0, 0)
InsufficientMetrics(n) == Metrics("insufficient_data", 0, 0, n)
ZeroMetrics(b) == Metrics("zero", 0, b, 0)
AvgMetrics(n, b) == Metrics("avg", n, b, 0)

\* the keys of the dicts that _perform_update and update_networks return
MetricKeys ==
    {"policy_loss", "value_loss", "entropy", "batch_size_used",
     "updates_performed", "value_mean", "value_std", "advantage_mean",
     "advantage_std", "learning_rate"}
InsufficientKeys ==
    {"policy_loss", "value_loss", "entropy", "skipped_reason",
     "available_samples"}
ResultKeys(r) ==
    CASE r.kind = "zero" -> MetricKeys
      [] r.kind = "avg" -> MetricKeys
      [] r.kind = "insufficient_data" -> InsufficientKeys
      [] OTHER -> {}

Snapshot ==
    [buffer |-> buffer, norm_count |-> norm_count,
     actor_opt_steps |-> actor_opt_steps, critic_opt_steps |-> critic_opt_steps,
     actor_sched_steps |-> actor_sched_steps,
     critic_sched_steps |-> critic_sched_steps]

(* ------------------------ pure parts of the agent ---------------------- *)
\* self.minimum_required_samples = int(self.batch_size * 2)
MinimumRequiredSamplesOneBatch(bs) == bs
MinimumRequiredSamples(bs) == bs * MinSamplesFactor

\* `if done and len(self.buffer) >= self.minimum_required_samples` of update
ShouldUpdateStrict(done, n, bs) == done /\ n > MinimumRequiredSamples(bs)
ShouldUpdate(done, n, bs) == done /\ n >= MinimumRequiredSamples(bs)

\* `if len(self.buffer) < self.minimum_required_samples` of update_networks
InsufficientDataOneBatch(n, bs) == n < bs
InsufficientData(n, bs) == n < MinimumRequiredSamples(bs)

\* adjusted_batch_size = min(self.batch_size, len(self.buffer))
AdjustedBatchSize(bs, n) == Min(bs, n)

\* end = min(start + current_batch_size, len(self.buffer))
ChunkEnd(s, b, n) == Min(s + b, n)

\* `if end - start < current_batch_size * 0.8: continue`
TooSmallInclusive(size, b) == size * SkipDen <= b * SkipNum
TooSmall(size, b) == size * SkipDen < b * SkipNum

\* one optimizer.step()
OptimizerStep(n) == n + 1

\* the schedulers inside the minibatch loop: not stepped there
SchedulerInMinibatchStepped(n) == n + 1
SchedulerInMinibatch(n) == n

\* self.actor_scheduler.step() / self.critic_scheduler.step() of update_networks
SchedulerStep(n) == n + 1

\* self.buffer.clear() of update_networks
BufferAfterUpdateKept(buf) == buf
BufferAfterUpdate(buf) == BufferClear(buf)

\* no update is running: the locals of _perform_update do not exist
IdleLocals ==
    /\ pc' = "idle"
    /\ epoch' = 0 /\ start' = 0 /\ cur_batch' = 0 /\ update_count' = 0

netVars == <<actor_opt_steps, critic_opt_steps, actor_sched_steps,
             critic_sched_steps, params_finite>>
loopVars == <<pc, epoch, start, cur_batch, update_count>>
storeVars == <<buffer, norm_count, value_stats, store_calls>>

(* --------------------------- PPOAgent.act ------------------------------ *)
\* normalize (pure) and sample from the actor under no_grad
ActFoldingState ==
    /\ pc = "idle"
    /\ norm_count < MaxUpdateCalls
    /\ last_op' = "act"
    /\ result' = ActionOut
    /\ entry' = Snapshot
    /\ norm_count' = norm_count + 1
    /\ UNCHANGED <<buffer, value_stats, store_calls, netVars, loopVars,
                   completed_updates, consumed, errors, direct_calls>>
Act ==
    /\ pc = "idle"
    /\ last_op' = "act"
    /\ result' = ActionOut
    /\ entry' = Snapshot
    /\ norm_count' = NormalizerNormalize(norm_count)
    /\ UNCHANGED <<buffer, value_stats, store_calls, netVars, loopVars,
                   completed_updates, consumed, errors, direct_calls>>

(* ---------------------- PPOAgent.update_networks ----------------------- *)
\* the head of update_networks on buffer contents buf, up to the first
\* statement of _perform_update's epoch loop
EnterUpdateNetworks(buf) ==
    IF InsufficientData(BufferLen(buf), batch_size)
    THEN /\ result' = InsufficientMetrics(BufferLen(buf))
         /\ IdleLocals
    ELSE /\ result' = NoResult
         /\ pc' = "epoch_head"
         /\ cur_batch' = AdjustedBatchSize(batch_size, BufferLen(buf))
         /\ epoch' = 0 /\ start' = 0 /\ update_count' = 0

UpdateNetworks ==
    /\ pc = "idle"
    /\ direct_calls < MaxDirectCalls
    /\ direct_calls' = direct_calls + 1
    /\ last_op' = "update_networks"
    /\ entry' = Snapshot
    /\ EnterUpdateNetworks(buffer)
    /\ UNCHANGED <<storeVars, netVars, completed_updates, consumed, errors>>

(* -------------------------- PPOAgent.update ---------------------------- *)
\* the statistics read by `normalized_state = self.state_normalizer.normalize(
\* state_tensor)`, which follows `self.state_normalizer.update(state_tensor)`
StatsAtNormalizeStale(n) == n
StatsAtNormalize(n) == NormalizerUpdate(n)

\* normalizer update, critic value and log-prob of the state, buffer.store,
\* then update_networks when the episode is done and the buffer holds enough.
\* A store on a full buffer raises and the exception leaves update.
Update(ep, done) ==
    /\ pc = "idle"
    /\ norm_count < MaxUpdateCalls
    /\ last_op' = "update"
    /\ entry' = Snapshot
    /\ norm_count' = NormalizerNormalize(NormalizerUpdate(norm_count))
    /\ value_stats' = StatsAtNormalize(norm_count)
    /\ store_calls' = store_calls + 1
    /\ IF BufferFull(buffer)
       THEN /\ buffer' = buffer
            /\ result' = Raised("raised_overflow")
            /\ IdleLocals
       ELSE /\ buffer' = BufferStore(buffer, Transition(ep, done, norm_count + 1))
            /\ IF ShouldUpdate(done, BufferLen(buffer'), batch_size)
               THEN EnterUpdateNetworks(buffer')
               ELSE /\ result' = EmptyDict
                    /\ IdleLocals
    /\ UNCHANGED <<netVars, completed_updates, consumed, errors, direct_calls>>

(* ---------------------- PPOAgent._perform_update ----------------------- *)
\* `for _ in range(self.num_epochs): indices = torch.randperm(len(self.buffer))`;
\* a loop that runs no pass falls off the end of the function, which returns None
EpochHead ==
    /\ pc = "epoch_head"
    /\ IF epoch < num_epochs
       THEN /\ epoch' = epoch + 1
            /\ start' = 0
            /\ pc' = "batch_head"
            /\ result' = result
       ELSE /\ result' = NoneValue
            /\ pc' = "after_perform"
            /\ UNCHANGED <<epoch, start>>
    /\ UNCHANGED <<storeVars, netVars, cur_batch, update_count, last_op, entry,
                   completed_updates, consumed, errors, direct_calls>>

\* a chunk below 80% of the batch size: `continue`
MinibatchSkip ==
    /\ pc = "batch_head"
    /\ start < BufferLen(buffer)
    /\ TooSmall(ChunkEnd(start, cur_batch, BufferLen(buffer)) - start, cur_batch)
    /\ start' = start + cur_batch
    /\ UNCHANGED <<storeVars, netVars, pc, epoch, cur_batch, update_count,
                   last_op, result, entry, completed_updates, consumed, errors,
                   direct_calls>>

\* a qualifying chunk: losses, backward, clip, both optimizer steps.  Nothing
\* looks at the loss or the gradients before the steps, so a NaN/Inf loss is
\* stepped into the parameters, and every later loss is NaN.
MinibatchStep ==
    /\ pc = "batch_head"
    /\ start < BufferLen(buffer)
    /\ ~TooSmall(ChunkEnd(start, cur_batch, BufferLen(buffer)) - start, cur_batch)
    /\ update_count' = update_count + 1
    /\ \E finite \in (IF params_finite THEN BOOLEAN ELSE {FALSE}) :
           params_finite' = finite
    /\ actor_opt_steps' = OptimizerStep(actor_opt_steps)
    /\ critic_opt_steps' = OptimizerStep(critic_opt_steps)
    /\ actor_sched_steps' = SchedulerInMinibatch(actor_sched_steps)
    /\ critic_sched_steps' = SchedulerInMinibatch(critic_sched_steps)
    /\ start' = start + cur_batch
    /\ UNCHANGED <<storeVars, pc, epoch, cur_batch, last_op, result, entry,
                   completed_updates, consumed, errors, direct_calls>>

\* a network/optimizer-level error in a qualifying chunk (forward, loss or
\* backward) propagates through _perform_update, update_networks and update
MinibatchError ==
    /\ pc = "batch_head"
    /\ start < BufferLen(buffer)
    /\ ~TooSmall(ChunkEnd(start, cur_batch, BufferLen(buffer)) - start, cur_batch)
    /\ errors < MaxErrors
    /\ errors' = errors + 1
    /\ result' = Raised("raised_network")
    /\ IdleLocals
    /\ UNCHANGED <<storeVars, netVars, last_op, entry, completed_updates,
                   consumed, direct_calls>>

\* the two `return`s that close the body of the epoch loop: they end
\* _perform_update when the first pass is over
PerformReturn ==
    /\ pc = "batch_head"
    /\ start >= BufferLen(buffer)
    /\ result' = IF update_count = 0
                 THEN ZeroMetrics(cur_batch)
                 ELSE AvgMetrics(update_count, cur_batch)
    /\ pc' = "after_perform"
    /\ UNCHANGED <<storeVars, netVars, epoch, start, cur_batch, update_count,
                   last_op, entry, completed_updates, consumed, errors,
                   direct_calls>>

\* the tail of update_networks: both schedulers step, the buffer is cleared,
\* the metrics are returned
UpdateNetworksTail ==
    /\ pc = "after_perform"
    /\ last_op \in {"update", "update_networks"}
    /\ actor_sched_steps' = SchedulerStep(actor_sched_steps)
    /\ critic_sched_steps' = SchedulerStep(critic_sched_steps)
    /\ buffer' = BufferAfterUpdate(buffer)
    /\ completed_updates' = completed_updates + 1
    /\ consumed' = consumed \cup Ids(buffer)
    /\ IdleLocals
    /\ UNCHANGED <<norm_count, value_stats, store_calls, actor_opt_steps,
                   critic_opt_steps, params_finite, last_op, result, entry, errors,
                   direct_calls>>

(* -------------------- Spec: the agent under any caller ----------------- *)
TrainerOff ==
    /\ tpc = "off" /\ next_episode = 0 /\ episode = 0 /\ step = 0
    /\ train_steps = 0

GaeOff == indices = <<>> /\ batch_indices = <<>>

NoAverages == [advantage_mean |-> <<0, 0>>, value_mean |-> <<0, 0>>]

MetricsOff ==
    /\ total_advantage_mean = 0 /\ total_value_mean = 0
    /\ minibatch_means = <<>>
    /\ averaged = NoAverages

ComputeOff ==
    /\ rewards = <<>> /\ values = <<>> /\ dones = <<>>
    /\ next_value = 0 /\ gamma = 0 /\ gae_lambda = 0
    /\ gae_t = 0 /\ gae = 0
    /\ advantages = <<>> /\ returns = <<>>
    /\ gpc = "off"

\* a float: finite (inf = 0, val in units of 1/RatioScale) or +/- infinity
Fin(v) == [inf |-> 0, val |-> v]
PosInf == [inf |-> 1, val |-> 0]

LossOff ==
    /\ ratio = Fin(0) /\ advantage = 0 /\ clip_range = 0
    /\ policy_loss = Fin(0)
    /\ lpc = "off"

NegInf == [inf |-> -1, val |-> 0]

\* the configuration and the locals of AgentTrainer.train before its loop:
\* best_eval_return = float('-inf'), episodes_without_improvement = 0
TrainLocalsInit ==
    /\ episode_return = 0
    /\ train_return_item = <<>> /\ eval_return_item = <<>>
    /\ train_returns = <<>> /\ eval_returns = <<>>
    /\ best_eval_return = NegInf
    /\ episodes_without_improvement = 0
    /\ eval_i = 0 /\ eval_sum = 0
    /\ eval_entry = [agent |-> 0, store_calls |-> 0, net |-> 0, train_steps |-> 0]
    /\ completed_returns = <<>>
    /\ evals_run = 0

TrainOff ==
    /\ eval_frequency = 1 /\ early_stop_patience = 1
    /\ TrainLocalsInit

\* no training state file has been written
NoCheckpoint == [episode |-> -1, train_returns |-> <<>>, eval_returns |-> <<>>,
                 train_steps |-> 0, avg_metrics |-> 0]

\* AgentTrainer.__init__: self.avg_metrics = {}; no checkpoint file yet
CkptLocalsInit ==
    /\ checkpoint = NoCheckpoint
    /\ avg_metrics = 0
    /\ num_updates = 0
    /\ resumed_from = -1
    /\ env_raised = FALSE

CkptOff ==
    /\ save_frequency = 1
    /\ CkptLocalsInit

AuxOff == MetricsOff /\ ComputeOff /\ LossOff /\ TrainOff /\ CkptOff

\* the agent as PPOAgent.__init__ leaves it
AgentInit ==
    /\ buffer = <<>>
    /\ norm_count = 0 /\ value_stats = 0 /\ store_calls = 0
    /\ actor_opt_steps = 0 /\ critic_opt_steps = 0
    /\ actor_sched_steps = 0 /\ critic_sched_steps = 0
    /\ params_finite = TRUE
    /\ pc = "idle"
    /\ epoch = 0 /\ start = 0 /\ cur_batch = 0 /\ update_count = 0
    /\ last_op = "none"
    /\ result = NoResult
    /\ entry = [buffer |-> <<>>, norm_count |-> 0, actor_opt_steps |-> 0,
                critic_opt_steps |-> 0, actor_sched_steps |-> 0,
                critic_sched_steps |-> 0]
    /\ completed_updates = 0 /\ consumed = {}
    /\ errors = 0 /\ direct_calls = 0

Init ==
    /\ batch_size \in 1..MaxBatchSize
    /\ num_epochs \in 0..MaxEpochs
    /\ AgentInit
    /\ GaeOff
    /\ AuxOff
    /\ TrainerOff

others == <<cfgVars, gaeVars, trainerVars, auxVars>>

CallAct == Act /\ UNCHANGED others
CallUpdate == (\E d \in BOOLEAN : Update(episode, d)) /\ UNCHANGED others
CallUpdateNetworks == UpdateNetworks /\ UNCHANGED others
StepEpochHead == EpochHead /\ UNCHANGED others
StepMinibatchSkip == MinibatchSkip /\ UNCHANGED others
StepMinibatch == MinibatchStep /\ UNCHANGED others
StepMinibatchError == MinibatchError /\ UNCHANGED others
StepPerformReturn == PerformReturn /\ UNCHANGED others
StepUpdateNetworksTail == UpdateNetworksTail /\ UNCHANGED others

Next ==
    \/ CallAct
    \/ CallUpdate
    \/ CallUpdateNetworks
    \/ StepEpochHead
    \/ StepMinibatchSkip
    \/ StepMinibatch
    \/ StepMinibatchError
    \/ StepPerformReturn
    \/ StepUpdateNetworksTail

Spec == Init /\ [][Next]_vars

(* ------------- SpecPerform: _perform_update on its own ------------------ *)
\* a buffer of n transitions of one episode, the last of them terminal
EpisodeBuffer(n) == [i \in 1..n |-> Transition(0, i = n, i)]

NetInit ==
    /\ actor_opt_steps = 0 /\ critic_opt_steps = 0
    /\ actor_sched_steps = 0 /\ critic_sched_steps = 0
    /\ params_finite = TRUE
    /\ completed_updates = 0 /\ consumed = {}
    /\ errors = 0 /\ direct_calls = 0

\* _perform_update(final_state, current_batch_size) is entered with
\* current_batch_size = batch_size on a buffer of any length 0..MaxChunkN
InitPerform ==
    /\ batch_size \in 1..MaxChunkB
    /\ num_epochs \in 0..MaxEpochs
    /\ buffer \in {EpisodeBuffer(n) : n \in 0..MaxChunkN}
    /\ norm_count = Len(buffer) /\ store_calls = Len(buffer)
    /\ value_stats = norm_count
    /\ NetInit
    /\ pc = "epoch_head"
    /\ epoch = 0 /\ start = 0 /\ cur_batch = batch_size /\ update_count = 0
    /\ last_op = "_perform_update"
    /\ result = NoResult
    /\ entry = [buffer |-> buffer, norm_count |-> norm_count,
                actor_opt_steps |-> 0, critic_opt_steps |-> 0,
                actor_sched_steps |-> 0, critic_sched_steps |-> 0]
    /\ GaeOff
    /\ AuxOff
    /\ TrainerOff

NextPerform ==
    \/ StepEpochHead
    \/ StepMinibatchSkip
    \/ StepMinibatch
    \/ StepMinibatchError
    \/ StepPerformReturn

SpecPerform == InitPerform /\ [][NextPerform]_vars

(* ---------------- SpecGae: the data path of one pass ------------------- *)
\* torch.randperm(n): any permutation of the n buffer positions (1..n here)
RandPerm(n) ==
    {p \in [1..n -> 1..n] : \A i, j \in 1..n : i # j => p[i] # p[j]}

\* batch_indices = indices[start:end]   (start, end 0-based; sequences 1-based)
BatchIndicesInOrder(perm, s, e) == [i \in 1..(e - s) |-> s + i]
BatchIndices(perm, s, e) == SubSeq(perm, s + 1, e)

\* compute_gae is given the rewards, values and dones gathered by batch_indices
\* and next_value = final_value: in its backward recursion position j of the
\* arrays takes the value of position j + 1 of the arrays as its next value,
\* and the last position takes next_value, the bootstrap.  The result is the
\* buffer position whose value is used for j, or Bootstrap.
Bootstrap == 0
GaeNextOf(bi, j) == IF j = Len(bi) THEN Bootstrap ELSE bi[j + 1]

\* any buffer of n transitions: done flags as the environment gave them
AnyBuffer(n) ==
    {[i \in 1..n |-> Transition(0, d[i], i)] : d \in [1..n -> BOOLEAN]}

\* update_networks has passed its threshold: len(buffer) >= 2 * batch_size
InitGae ==
    /\ batch_size \in 1..MaxBatchSize
    /\ num_epochs = 1
    /\ buffer \in UNION {AnyBuffer(n) : n \in 2..MaxGaeN}
    /\ ~InsufficientData(Len(buffer), batch_size)
    /\ norm_count = Len(buffer) /\ store_calls = Len(buffer)
    /\ value_stats = norm_count
    /\ NetInit
    /\ pc = "epoch_head"
    /\ epoch = 0 /\ start = 0 /\ update_count = 0
    /\ cur_batch = AdjustedBatchSize(batch_size, Len(buffer))
    /\ last_op = "update_networks"
    /\ result = NoResult
    /\ entry = [buffer |-> buffer, norm_count |-> norm_count,
                actor_opt_steps |-> 0, critic_opt_steps |-> 0,
                actor_sched_steps |-> 0, critic_sched_steps |-> 0]
    /\ GaeOff
    /\ AuxOff
    /\ TrainerOff

\* indices = torch.randperm(len(self.buffer))
GaeShuffle ==
    /\ EpochHead
    /\ \E p \in RandPerm(BufferLen(buffer)) : indices' = p
    /\ UNCHANGED <<batch_indices, cfgVars, trainerVars, auxVars>>

GaeSkip == MinibatchSkip /\ UNCHANGED others

\* the arrays of one minibatch are gathered by batch_indices
GaeGather ==
    /\ MinibatchStep
    /\ batch_indices' =
           BatchIndices(indices, start, ChunkEnd(start, cur_batch, BufferLen(buffer)))
    /\ UNCHANGED <<indices, cfgVars, trainerVars, auxVars>>

GaeReturn == PerformReturn /\ UNCHANGED others

NextGae ==
    \/ GaeShuffle
    \/ GaeSkip
    \/ GaeGather
    \/ GaeReturn

SpecGae == InitGae /\ [][NextGae]_vars

(* --------------- SpecTrain: AgentTrainer.train ------------------------- *)
\* Agent.reset(): the PPO agent keeps its buffer, normalizer and networks
AgentReset == UNCHANGED agentVars

\* the reward of one env.step
Rewards == {0, 1}

trainCfg == <<eval_frequency, early_stop_patience>>
trainBase == <<cfgVars, gaeVars, metricVars, computeVars, lossVars, trainCfg,
               save_frequency>>
notTrainCkptVars == <<trainBase, env_raised>>
notTrainVars == <<notTrainCkptVars, checkpoint, avg_metrics, num_updates,
                  resumed_from>>

\* Python truth value of an item that is None (<<>>) or a number
Truthy(item) == item # <<>> /\ item[1] # 0

\* `if training:` of _run_episode
TrainingBranchAlways(training) == TRUE
TrainingBranch(training) == training

\* evaluate returns the tuple (np.mean(eval_returns), avg_results)
EvaluateResult(sum, n) == [is_tuple |-> TRUE, mean |-> <<sum, n>>]

\* `eval_return.item()`: numpy scalars have .item(), tuples do not
HasItem(v) == ~v.is_tuple

\* `eval_return > best_eval_return + self.early_stop_min_improvement`, for
\* early_stop_min_improvement = 0 and means over the same number of episodes
Improved(v, best) == best.inf = -1 \/ v.mean[1] > best.val

InitTrain ==
    /\ batch_size \in 1..MaxBatchSize
    /\ num_epochs \in 0..MaxEpochs
    /\ AgentInit
    /\ GaeOff
    /\ MetricsOff /\ ComputeOff /\ LossOff
    /\ eval_frequency \in 1..MaxEvalFrequency
    /\ early_stop_patience \in 1..MaxPatience
    /\ TrainLocalsInit
    /\ save_frequency \in 1..MaxSaveFrequency
    /\ CkptLocalsInit
    /\ tpc = "loop" /\ next_episode = 0 /\ episode = 0 /\ step = 0
    /\ train_steps = 0

\* `for self.episode in tqdm(range(self.train_episodes))`, then the first
\* statements of _run_episode: env.reset(), agent.reset(), episode_return = 0,
\* num_updates = 0
TrainLoop ==
    /\ tpc = "loop"
    /\ IF next_episode < TrainEpisodes
       THEN /\ episode' = next_episode
            /\ next_episode' = next_episode + 1
            /\ step' = 0
            /\ tpc' = "episode"
       ELSE /\ tpc' = "returned"
            /\ UNCHANGED <<episode, next_episode, step>>
    /\ AgentReset
    /\ episode_return' = 0
    /\ train_return_item' = <<>> /\ eval_return_item' = <<>>
    /\ num_updates' = 0
    /\ UNCHANGED <<train_returns, eval_returns, best_eval_return,
                   episodes_without_improvement, eval_i, eval_sum, eval_entry,
                   completed_returns, evals_run>>
    /\ UNCHANGED <<train_steps, notTrainCkptVars, checkpoint, avg_metrics,
                   resumed_from>>

\* what _run_episode does once agent.update has returned its metrics
AfterUpdate(done) ==
    /\ train_steps' = train_steps + 1
    /\ step' = step + 1
    /\ tpc' = IF done THEN "episode_end" ELSE "episode"

trainLists == <<train_return_item, eval_return_item, train_returns, eval_returns,
                best_eval_return, episodes_without_improvement, eval_i, eval_sum,
                eval_entry, completed_returns, evals_run>>

\* one step of _run_episode: act, env.step, agent.update(state, action,
\* reward, next_state, done), episode_return += reward.  An exception of
\* update leaves train (the return of that episode is then never used).
RunStep ==
    /\ tpc = "episode"
    /\ step < MaxStepsPerEpisode
    /\ \E done \in BOOLEAN :
           /\ Update(episode, done)
           /\ IF pc' # "idle"
              THEN tpc' = "in_update" /\ UNCHANGED <<train_steps, step>>
              ELSE IF result'.kind = "raised_overflow"
                   THEN tpc' = "crashed" /\ UNCHANGED <<train_steps, step>>
                   ELSE AfterUpdate(done)
    /\ \E reward \in Rewards : episode_return' = episode_return + reward
    /\ UNCHANGED <<episode, next_episode, trainLists, notTrainVars>>

\* env.step raises one of allowed_exceptions: `except ...: continue`
EnvStepRaises ==
    /\ tpc = "episode"
    /\ step < MaxStepsPerEpisode
    /\ tpc' = "loop"
    /\ env_raised' = TRUE
    /\ UNCHANGED <<agentVars, next_episode, episode, step, train_steps,
                   episode_return, trainLists, trainBase, checkpoint,
                   avg_metrics, num_updates, resumed_from>>

\* agent.update returns from update_networks (done was true: `break`) with a
\* non-empty dict of metrics (`if metrics: num_updates += 1`), or its
\* exception leaves train
UpdateReturned ==
    /\ tpc = "in_update"
    /\ pc = "idle"
    /\ IF result.kind = "raised_network"
       THEN tpc' = "crashed" /\ UNCHANGED <<train_steps, step, num_updates>>
       ELSE AfterUpdate(TRUE) /\ num_updates' = num_updates + 1
    /\ UNCHANGED <<agentVars, next_episode, episode, episode_return, trainLists,
                   notTrainCkptVars, checkpoint, avg_metrics, resumed_from>>

\* `for step in range(self.max_steps_per_episode)` is exhausted
RunExhausted ==
    /\ tpc = "episode"
    /\ step >= MaxStepsPerEpisode
    /\ tpc' = "episode_end"
    /\ UNCHANGED <<agentVars, next_episode, episode, step, train_steps,
                   episode_return, trainLists, notTrainVars>>

\* _run_episode(training=True) has returned: train_return_item =
\* episode_return.item(); then `if self.episode % self.eval_frequency == 0`
\* evaluate(self.eval_episodes, verbosity) is entered
EpisodeEnd ==
    /\ tpc = "episode_end"
    /\ train_return_item' = <<episode_return>>
    /\ completed_returns' = Append(completed_returns, episode_return)
    /\ IF episode % eval_frequency = 0
       THEN /\ tpc' = "evaluate"
            /\ eval_i' = 0 /\ eval_sum' = 0
            /\ eval_entry' = [agent |-> Snapshot, store_calls |-> store_calls,
                              net |-> netVars, train_steps |-> train_steps]
       ELSE /\ tpc' = "save"
            /\ UNCHANGED <<eval_i, eval_sum, eval_entry>>
    /\ UNCHANGED <<eval_return_item, train_returns, eval_returns,
                   best_eval_return, episodes_without_improvement, evals_run>>
    /\ UNCHANGED <<agentVars, next_episode, episode, step, train_steps,
                   episode_return, notTrainVars>>

(* ------------------------ AgentTrainer.evaluate ------------------------- *)
evalFrame == <<train_return_item, eval_return_item, train_returns, eval_returns,
               best_eval_return, episodes_without_improvement, eval_entry,
               completed_returns>>

\* `for i in range(num_episodes)`: _run_episode(training=False, ...) starts
\* with env.reset(), agent.reset(), episode_return = 0
EvalEpisodeStart ==
    /\ tpc = "evaluate"
    /\ eval_i < EvalEpisodes
    /\ tpc' = "eval_episode"
    /\ step' = 0
    /\ episode_return' = 0
    /\ AgentReset
    /\ UNCHANGED <<eval_i, eval_sum, evals_run, evalFrame>>
    /\ UNCHANGED <<next_episode, episode, train_steps, notTrainVars>>

\* one step of _run_episode(training=False): agent.act, env.step, and
\* agent.update and train_steps += 1 only under `if training:`
EvalStep ==
    /\ tpc = "eval_episode"
    /\ step < MaxStepsPerEpisode
    /\ \E done \in BOOLEAN :
          /\ IF TrainingBranch(FALSE)
             THEN Update(episode, done) /\ train_steps' = train_steps + 1
             ELSE Act /\ UNCHANGED train_steps
          /\ tpc' = IF done THEN "eval_episode_end" ELSE "eval_episode"
    /\ \E reward \in Rewards : episode_return' = episode_return + reward
    /\ step' = step + 1
    /\ UNCHANGED <<eval_i, eval_sum, evals_run, evalFrame>>
    /\ UNCHANGED <<next_episode, episode, notTrainVars>>

\* env.step raises one of train's allowed_exceptions: evaluate was called
\* without allowed_exceptions, so the exception leaves evaluate and is caught
\* by train's `except allowed_exceptions: continue`
EvalEnvRaises ==
    /\ tpc = "eval_episode"
    /\ step < MaxStepsPerEpisode
    /\ tpc' = "loop"
    /\ env_raised' = TRUE
    /\ UNCHANGED <<agentVars, next_episode, episode, step, train_steps,
                   episode_return, trainLists, trainBase, checkpoint,
                   avg_metrics, num_updates, resumed_from>>

\* the episode is over (done, or max_steps_per_episode steps):
\* eval_returns.append(episode_return.item())
EvalEpisodeEnd ==
    /\ \/ tpc = "eval_episode_end"
       \/ tpc = "eval_episode" /\ step >= MaxStepsPerEpisode
    /\ eval_sum' = eval_sum + episode_return
    /\ eval_i' = eval_i + 1
    /\ tpc' = "evaluate"
    /\ UNCHANGED <<evals_run, evalFrame>>
    /\ UNCHANGED <<agentVars, next_episode, episode, step, train_steps,
                   episode_return, notTrainVars>>

\* `return np.mean(eval_returns), avg_results`
EvaluateReturn ==
    /\ tpc = "evaluate"
    /\ eval_i >= EvalEpisodes
    /\ tpc' = "eval_returned"
    /\ evals_run' = evals_run + 1
    /\ UNCHANGED <<eval_i, eval_sum, evalFrame>>
    /\ UNCHANGED <<agentVars, next_episode, episode, step, train_steps,
                   episode_return, notTrainVars>>

(* ------------------ AgentTrainer.train after evaluate ------------------- *)
\* eval_return = self.evaluate(...); eval_return_item = eval_return.item();
\* then the early stopping check and its `break`.  evaluate returns a tuple,
\* so .item() raises AttributeError, which leaves train.
AfterEvaluate ==
    /\ tpc = "eval_returned"
    /\ LET eval_return == EvaluateResult(eval_sum, EvalEpisodes)
       IN IF HasItem(eval_return)
          THEN /\ eval_return_item' = <<eval_return.mean[1]>>
               /\ IF Improved(eval_return, best_eval_return)
                  THEN /\ best_eval_return' = Fin(eval_return.mean[1])
                       /\ episodes_without_improvement' = 0
                  ELSE /\ episodes_without_improvement' =
                              episodes_without_improvement + 1
                       /\ UNCHANGED best_eval_return
               /\ tpc' = IF episodes_without_improvement' >= early_stop_patience
                         THEN "returned"
                         ELSE "save"
          ELSE /\ tpc' = "attribute_error"
               /\ UNCHANGED <<eval_return_item, best_eval_return,
                              episodes_without_improvement>>
    /\ UNCHANGED <<train_return_item, train_returns, eval_returns, eval_i,
                   eval_sum, eval_entry, completed_returns, evals_run>>
    /\ UNCHANGED <<agentVars, next_episode, episode, step, train_steps,
                   episode_return, notTrainVars>>

(* ----------------------- checkpoints of train -------------------------- *)
\* the dict _save_checkpoint pickles; pickle.dump / pickle.load of ints and
\* lists of floats give back equal values, detached from the trainer's lists
CheckpointOf(ep, tr, er, ts, am) ==
    [episode |-> ep, train_returns |-> tr, eval_returns |-> er,
     train_steps |-> ts, avg_metrics |-> am]

\* `if self.episode % self.save_frequency == 0: self._save_checkpoint()`,
\* the last statement of the try block
SaveCheckpoint ==
    /\ tpc = "save"
    /\ checkpoint' = IF episode % save_frequency = 0
                     THEN CheckpointOf(episode, train_returns, eval_returns,
                                       train_steps, avg_metrics)
                     ELSE checkpoint
    /\ tpc' = "append"
    /\ UNCHANGED <<agentVars, next_episode, episode, step, train_steps, trainVars,
                   notTrainCkptVars, avg_metrics, num_updates, resumed_from>>

\* `range(self.train_episodes)` of a train call that is entered
FirstEpisode(saved_episode) == 0

\* train has ended and a checkpoint file exists: AgentTrainer.from_checkpoint
\* builds a trainer (__init__, then the five assignments from the pickled
\* dict) around the agent it is given
FromCheckpoint ==
    /\ tpc \in {"returned", "crashed", "attribute_error"}
    /\ checkpoint # NoCheckpoint
    /\ resumed_from = -1
    /\ train_returns' = checkpoint.train_returns
    /\ eval_returns' = checkpoint.eval_returns
    /\ train_steps' = checkpoint.train_steps
    /\ avg_metrics' = checkpoint.avg_metrics
    /\ episode' = checkpoint.episode
    /\ resumed_from' = checkpoint.episode
    /\ tpc' = "restored"
    /\ UNCHANGED <<agentVars, next_episode, step, episode_return,
                   train_return_item, eval_return_item, best_eval_return,
                   episodes_without_improvement, eval_i, eval_sum, eval_entry,
                   completed_returns, evals_run, notTrainCkptVars, checkpoint,
                   num_updates>>

\* train() on the trainer built from the checkpoint, up to its loop:
\* best_eval_return = float('-inf'), episodes_without_improvement = 0, and
\* the iterator of `for self.episode in tqdm(range(self.train_episodes))`
TrainEnter ==
    /\ tpc = "restored"
    /\ best_eval_return' = NegInf
    /\ episodes_without_improvement' = 0
    /\ next_episode' = FirstEpisode(episode)
    /\ tpc' = "loop"
    /\ UNCHANGED <<agentVars, episode, step, train_steps, episode_return,
                   train_return_item, eval_return_item, train_returns,
                   eval_returns, eval_i, eval_sum, eval_entry, completed_returns,
                   evals_run, notTrainVars>>

\* the statements after the try block:
\*   if train_return_item: self.train_returns.append(train_return_item)
\*   if avg_metrics: self._update_avg_metrics(avg_metrics)
\*   if eval_return_item: self.eval_returns.append(eval_return_item)
\* avg_metrics of _run_episode is non-empty when num_updates > 0
TrainAppend ==
    /\ tpc = "append"
    /\ avg_metrics' = IF num_updates > 0 THEN avg_metrics + 1 ELSE avg_metrics
    /\ train_returns' = IF Truthy(train_return_item)
                        THEN Append(train_returns, train_return_item[1])
                        ELSE train_returns
    /\ eval_returns' = IF Truthy(eval_return_item)
                       THEN Append(eval_returns, eval_return_item[1])
                       ELSE eval_returns
    /\ tpc' = "loop"
    /\ UNCHANGED <<train_return_item, eval_return_item, best_eval_return,
                   episodes_without_improvement, eval_i, eval_sum, eval_entry,
                   completed_returns, evals_run>>
    /\ UNCHANGED <<agentVars, next_episode, episode, step, train_steps,
                   episode_return, notTrainCkptVars, checkpoint, num_updates,
                   resumed_from>>

NextTrain ==
    \/ TrainLoop
    \/ RunStep
    \/ EnvStepRaises
    \/ UpdateReturned
    \/ RunExhausted
    \/ EpisodeEnd
    \/ EvalEpisodeStart
    \/ EvalStep
    \/ EvalEnvRaises
    \/ EvalEpisodeEnd
    \/ EvaluateReturn
    \/ AfterEvaluate
    \/ SaveCheckpoint
    \/ TrainAppend
    \/ StepEpochHead
    \/ StepMinibatchSkip
    \/ StepMinibatch
    \/ StepMinibatchError
    \/ StepPerformReturn
    \/ StepUpdateNetworksTail

SpecTrain == InitTrain /\ [][NextTrain]_vars

(* ----- SpecCheckpoint: train, from_checkpoint, then train again --------- *)
\* a trainer about to run train, with one pass per PPO update and
\* early_stop_patience = 1
InitCheckpoint ==
    /\ InitTrain
    /\ num_epochs = 1
    /\ early_stop_patience = 1

NextCheckpoint ==
    \/ TrainLoop
    \/ RunStep
    \/ EnvStepRaises
    \/ UpdateReturned
    \/ RunExhausted
    \/ EpisodeEnd
    \/ EvalEpisodeStart
    \/ EvalStep
    \/ EvalEnvRaises
    \/ EvalEpisodeEnd
    \/ EvaluateReturn
    \/ AfterEvaluate
    \/ SaveCheckpoint
    \/ TrainAppend
    \/ FromCheckpoint
    \/ TrainEnter
    \/ StepEpochHead
    \/ StepMinibatchSkip
    \/ StepMinibatch
    \/ StepMinibatchError
    \/ StepPerformReturn
    \/ StepUpdateNetworksTail

SpecCheckpoint == InitCheckpoint /\ [][NextCheckpoint]_vars

(* --------------- SpecEval: AgentTrainer.evaluate on its own ------------- *)
\* a buffer of n transitions of an episode that has not ended
OpenBuffer(n) == [i \in 1..n |-> Transition(0, FALSE, i)]

\* evaluate(num_episodes) is entered on a trainer whose agent has stored n
\* transitions in n training steps
InitEval ==
    /\ batch_size \in 1..MaxBatchSize
    /\ num_epochs \in 0..MaxEpochs
    /\ buffer \in {OpenBuffer(n) : n \in 0..BufferCapacity}
    /\ norm_count = Len(buffer) /\ store_calls = Len(buffer)
    /\ value_stats = norm_count
    /\ NetInit
    /\ pc = "idle"
    /\ epoch = 0 /\ start = 0 /\ cur_batch = 0 /\ update_count = 0
    /\ last_op = IF Len(buffer) = 0 THEN "none" ELSE "update"
    /\ result = IF Len(buffer) = 0 THEN NoResult ELSE EmptyDict
    /\ entry = [buffer |-> SubSeq(buffer, 1, Len(buffer) - 1),
                norm_count |-> IF norm_count = 0 THEN 0 ELSE norm_count - 1,
                actor_opt_steps |-> 0, critic_opt_steps |-> 0,
                actor_sched_steps |-> 0, critic_sched_steps |-> 0]
    /\ GaeOff
    /\ MetricsOff /\ ComputeOff /\ LossOff /\ CkptOff
    /\ eval_frequency = 1 /\ early_stop_patience = 1
    /\ episode_return = 0
    /\ train_return_item = <<>> /\ eval_return_item = <<>>
    /\ train_returns = <<>> /\ eval_returns = <<>>
    /\ best_eval_return = NegInf
    /\ episodes_without_improvement = 0
    /\ eval_i = 0 /\ eval_sum = 0
    /\ completed_returns = <<>>
    /\ evals_run = 0
    /\ tpc = "evaluate" /\ next_episode = 0 /\ episode = 0 /\ step = 0
    /\ train_steps = Len(buffer)
    /\ eval_entry = [agent |-> Snapshot, store_calls |-> store_calls,
                     net |-> netVars, train_steps |-> train_steps]

NextEval ==
    \/ EvalEpisodeStart
    \/ EvalStep
    \/ EvalEnvRaises
    \/ EvalEpisodeEnd
    \/ EvaluateReturn

SpecEval == InitEval /\ [][NextEval]_vars

(* ------------- SpecMetrics: the accumulators of one pass ---------------- *)
MeanValues == 0..MaxMean

\* `total_x += x.mean().item()`
Accumulate(total, x) == total + x

\* `total_x / update_count`, kept as the fraction <<numerator, denominator>>
Average(total, n) == <<total, n>>

\* the averaged fields of the dict returned when update_count > 0:
\*   'value_mean': total_value_mean / update_count,
\*   'advantage_mean': total_value_mean / update_count
ReturnedAverages(tam, tvm, n) ==
    [advantage_mean |-> Average(tvm, n), value_mean |-> Average(tvm, n)]

\* update_networks has passed its threshold on a buffer of one episode
InitMetrics ==
    /\ batch_size \in 1..MaxBatchSize
    /\ num_epochs \in 1..MaxEpochs
    /\ buffer \in {EpisodeBuffer(n) : n \in 2..MaxGaeN}
    /\ ~InsufficientData(Len(buffer), batch_size)
    /\ norm_count = Len(buffer) /\ store_calls = Len(buffer)
    /\ value_stats = norm_count
    /\ NetInit
    /\ pc = "epoch_head"
    /\ epoch = 0 /\ start = 0 /\ update_count = 0
    /\ cur_batch = AdjustedBatchSize(batch_size, Len(buffer))
    /\ last_op = "update_networks"
    /\ result = NoResult
    /\ entry = [buffer |-> buffer, norm_count |-> norm_count,
                actor_opt_steps |-> 0, critic_opt_steps |-> 0,
                actor_sched_steps |-> 0, critic_sched_steps |-> 0]
    /\ GaeOff
    /\ AuxOff
    /\ TrainerOff

MetricsEpochHead == EpochHead /\ UNCHANGED others

MetricsSkip == MinibatchSkip /\ UNCHANGED others

\* a qualifying chunk: its advantage mean and value mean are added to the totals
MetricsStep ==
    /\ MinibatchStep
    /\ \E a \in MeanValues, v \in MeanValues :
          /\ total_advantage_mean' = Accumulate(total_advantage_mean, a)
          /\ total_value_mean' = Accumulate(total_value_mean, v)
          /\ minibatch_means' = Append(minibatch_means, [adv |-> a, val |-> v])
    /\ UNCHANGED <<averaged, notMetricVars>>

MetricsReturn ==
    /\ PerformReturn
    /\ averaged' = IF update_count = 0
                   THEN NoAverages
                   ELSE ReturnedAverages(total_advantage_mean, total_value_mean,
                                         update_count)
    /\ UNCHANGED <<total_advantage_mean, total_value_mean, minibatch_means,
                   notMetricVars>>

NextMetrics ==
    \/ MetricsEpochHead
    \/ MetricsSkip
    \/ MetricsStep
    \/ MetricsReturn

SpecMetrics == InitMetrics /\ [][NextMetrics]_vars

(* ------------- SpecCompute: PPOBuffer.compute_gae ----------------------- *)
\* rewards, values and the bootstrap value; the discount; lambda
GaeNumbers == {0, 1}
GaeGammas == {0, 1, 2}
GaeLambdas == {0, 1}

\* next_v = next_value if t == T-1 else values[t+1]      (arrays 1..T here)
GaeNextV(vl, nv, t) == IF t = Len(vl) THEN nv ELSE vl[t + 1]

\* mask = 0 if dones[t] else 1
GaeMaskIgnoringDone(d) == 1
GaeMask(d) == IF d THEN 0 ELSE 1

\* delta = rewards[t] + gamma * next_v * mask - values[t]
GaeDelta(r, gm, next_v, mask, v) == r + gm * next_v * mask - v

\* gamma * lambda * mask * gae
GaeCarryUnmasked(gm, lm, mask, g) == gm * lm * g
GaeCarry(gm, lm, mask, g) == gm * lm * mask * g

\* the value of gae after the iteration for t, as a function of the arguments
RECURSIVE GaeAt(_, _, _, _, _, _, _)
GaeAt(t, rw, vl, dn, nv, gm, lm) ==
    LET mask == GaeMask(dn[t])
        delta == GaeDelta(rw[t], gm, GaeNextV(vl, nv, t), mask, vl[t])
    IN IF t = Len(rw)
       THEN delta + GaeCarry(gm, lm, mask, 0)
       ELSE delta + GaeCarry(gm, lm, mask, GaeAt(t + 1, rw, vl, dn, nv, gm, lm))

\* the agent is idle; compute_gae is called on arrays of any length 1..MaxGaeT
InitCompute ==
    /\ batch_size = 1 /\ num_epochs = 1
    /\ AgentInit
    /\ GaeOff
    /\ MetricsOff
    /\ LossOff
    /\ TrainOff /\ CkptOff
    /\ TrainerOff
    /\ \E T \in 1..MaxGaeT :
          /\ rewards \in [1..T -> GaeNumbers]
          /\ values \in [1..T -> GaeNumbers]
          /\ dones \in [1..T -> BOOLEAN]
          /\ gae_t = T
          /\ advantages = [i \in 1..T |-> 0]
          /\ returns = [i \in 1..T |-> 0]
    /\ next_value \in GaeNumbers
    /\ gamma \in GaeGammas
    /\ gae_lambda \in GaeLambdas
    /\ gae = 0
    /\ gpc = "loop"

\* one iteration of `for t from T-1 downto 0`
ComputeGaeStep ==
    /\ gpc = "loop"
    /\ gae_t >= 1
    /\ LET mask == GaeMask(dones[gae_t])
           delta == GaeDelta(rewards[gae_t], gamma,
                             GaeNextV(values, next_value, gae_t), mask,
                             values[gae_t])
           g == delta + GaeCarry(gamma, gae_lambda, mask, gae)
       IN /\ gae' = g
          /\ advantages' = [advantages EXCEPT ![gae_t] = g]
          /\ returns' = [returns EXCEPT ![gae_t] = g + values[gae_t]]
    /\ gae_t' = gae_t - 1
    /\ UNCHANGED <<rewards, values, dones, next_value, gamma, gae_lambda, gpc>>
    /\ UNCHANGED notComputeVars

\* the loop is over: (advantages, returns) are returned
ComputeGaeReturn ==
    /\ gpc = "loop"
    /\ gae_t = 0
    /\ gpc' = "returned"
    /\ UNCHANGED <<rewards, values, dones, next_value, gamma, gae_lambda, gae_t,
                   gae, advantages, returns>>
    /\ UNCHANGED notComputeVars

NextCompute ==
    \/ ComputeGaeStep
    \/ ComputeGaeReturn

SpecCompute == InitCompute /\ [][NextCompute]_vars

(* ------------- SpecLoss: the clipped policy loss of one sample ---------- *)
\* float arithmetic on finite values and infinities, for a factor a > 0
ExtTimes(x, a) == IF x.inf # 0 THEN x ELSE Fin(x.val * a)
ExtNeg(x) == [inf |-> -x.inf, val |-> -x.val]
ExtLeq(x, y) ==
    IF x.inf = -1 \/ y.inf = 1 THEN TRUE
    ELSE IF x.inf = 1 \/ y.inf = -1 THEN FALSE
    ELSE x.val <= y.val

\* torch.clamp(ratio, 1 - self.clip_range, 1 + self.clip_range)
TorchClamp(x, lo, hi) ==
    IF x.inf = 1 THEN Fin(hi)
    ELSE IF x.inf = -1 THEN Fin(lo)
    ELSE IF x.val < lo THEN Fin(lo)
    ELSE IF x.val > hi THEN Fin(hi)
    ELSE x

\* torch.min(policy_loss_1, policy_loss_2)
TorchMax(x, y) == IF ExtLeq(x, y) THEN y ELSE x
TorchMin(x, y) == IF ExtLeq(x, y) THEN x ELSE y

\* policy_loss_1 = ratio * advantages
\* policy_loss_2 = torch.clamp(ratio, 1 - clip_range, 1 + clip_range) * advantages
\* -torch.min(policy_loss_1, policy_loss_2), for one sample
PolicyLossSample(rt, adv, eps) ==
    LET policy_loss_1 == ExtTimes(rt, adv)
        policy_loss_2 == ExtTimes(TorchClamp(rt, RatioScale - eps, RatioScale + eps), adv)
    IN ExtNeg(TorchMin(policy_loss_1, policy_loss_2))

\* exp(.) of a float: any non-negative value, or +inf when it overflows
Ratios == {Fin(v) : v \in 0..MaxRatio} \cup {PosInf}

InitLoss ==
    /\ batch_size = 1 /\ num_epochs = 1
    /\ AgentInit
    /\ GaeOff
    /\ MetricsOff
    /\ ComputeOff
    /\ TrainOff /\ CkptOff
    /\ TrainerOff
    /\ ratio \in Ratios
    /\ advantage \in 1..MaxAdvantage
    /\ clip_range \in 1..(RatioScale - 1)
    /\ policy_loss = Fin(0)
    /\ lpc = "ratio"

ComputePolicyLoss ==
    /\ lpc = "ratio"
    /\ policy_loss' = PolicyLossSample(ratio, advantage, clip_range)
    /\ lpc' = "done"
    /\ UNCHANGED <<ratio, advantage, clip_range>>
    /\ UNCHANGED notLossVars

NextLoss == ComputePolicyLoss

SpecLoss == InitLoss /\ [][NextLoss]_vars

(* ============================== claims ================================= *)
\* gradient steps of one pass over n transitions with batch size b, in closed form
ChunksPerPass(n, b) ==
    (n \div b) + (IF n % b > 0 /\ (n % b) * 5 >= b * 4 THEN 1 ELSE 0)

Completed == pc = "idle" /\ result.kind \in {"avg", "zero", "None"}

\* C1: a triggered update over N >= 2*batch_size transitions runs num_epochs
\* full passes, so updates_performed = num_epochs * (qualifying minibatches
\* per pass).  The code returns from inside the epoch loop: one pass only.
C1_AllEpochsRun ==
    (pc = "after_perform" /\ result.kind = "avg"
        /\ Len(buffer) >= 2 * batch_size)
    => result.updates_performed = num_epochs * ChunksPerPass(Len(buffer), batch_size)

\* C2: every Agent.update call stores exactly one transition, and starts
\* the update of the networks iff done holds and the buffer, with the new
\* transition, has at least 2*batch_size entries; in every other case it
\* returns the empty dict.
C2_AlwaysStoresOne ==
    [][ (norm_count' # norm_count) =>
            /\ Len(buffer') = Len(buffer) + 1
            /\ (pc' = "epoch_head") <=>
                   (buffer'[Len(buffer')].done /\ Len(buffer') >= 2 * batch_size)
            /\ (pc' # "epoch_head") => (pc' = "idle" /\ result' = EmptyDict)
      ]_vars

\* C2 (amended): every Agent.update call makes exactly one buffer.store.  A
\* store made below capacity appends exactly the given transition, and the
\* update of the networks starts iff done holds and the buffer, with the new
\* transition, has at least 2*batch_size entries; otherwise update returns
\* the empty dict.  A store made on a full buffer is rejected with an error:
\* nothing is stored and no update starts.  No optimizer step, scheduler
\* step or clear happens outside a started update.
C2_UpdateStoresAndTriggers ==
    [][ /\ (norm_count' # norm_count) =>
            /\ norm_count' = norm_count + 1
            /\ store_calls' = store_calls + 1
            /\ UNCHANGED netVars
            /\ ~BufferFull(buffer) =>
                 \E d \in BOOLEAN :
                    /\ buffer' = Append(buffer, Transition(episode, d, norm_count + 1))
                    /\ (pc' = "epoch_head") <=> (d /\ Len(buffer') >= 2 * batch_size)
                    /\ (pc' # "epoch_head") => (pc' = "idle" /\ result' = EmptyDict)
            /\ BufferFull(buffer) =>
                 (buffer' = buffer /\ pc' = "idle" /\ result'.kind = "raised_overflow")
        /\ (netVars' # netVars \/ Len(buffer') < Len(buffer))
              => pc \in {"batch_head", "after_perform"}
      ]_vars

C2_Witness ==
    /\ last_op = "update"
    /\ pc = "epoch_head"
    /\ Len(buffer) = 2 * batch_size
    /\ buffer[Len(buffer)].done

\* C3: after every update that completes the buffer is empty, and no
\* transition in the buffer was in the buffer of a completed update.
C3_BufferEmptyAfterUpdate ==
    /\ Completed => Len(buffer) = 0
    /\ Ids(buffer) \cap consumed = {}

C3_Witness ==
    /\ Completed
    /\ result.kind = "avg"
    /\ last_op = "update"
    /\ completed_updates >= 2
    /\ buffer = <<>>

\* C4: one pass cuts 0..N-1 into consecutive chunks of B (the last one
\* N mod B); a chunk is trained on iff its size is at least 0.8*B, so a pass
\* makes floor(N/B) gradient steps, plus one when 0 < N mod B and
\* N mod B >= 0.8*B.
C4_ChunksOfOnePass ==
    LET n == Len(buffer)
        b == cur_batch
        size(k) == Min(b, n - k * b)
    IN /\ pc = "batch_head" =>
            /\ start % b = 0
            /\ start < n => ChunkEnd(start, b, n) - start
                               = (IF start + b <= n THEN b ELSE n % b)
            /\ update_count =
                 Cardinality({k \in 0..((start \div b) - 1) :
                                 k * b < n /\ size(k) * 5 >= b * 4})
       /\ (pc = "after_perform" /\ result.kind \in {"avg", "zero"}) =>
            result.updates_performed = ChunksPerPass(n, b)

C4_Witness ==
    /\ pc = "after_perform"
    /\ Len(buffer) % cur_batch > 0
    /\ (Len(buffer) % cur_batch) * 5 >= cur_batch * 4
    /\ result.updates_performed = (Len(buffer) \div cur_batch) + 1

\* C5: in the GAE of a minibatch every non-terminal transition at buffer
\* timestep t takes the value of timestep t+1 as its next value, and only the
\* last transition of the buffer takes the bootstrap value.  The code hands
\* the recursion the arrays in the order of the shuffled batch_indices.
C5_NextValueIsTemporalSuccessor ==
    \A j \in DOMAIN batch_indices :
        LET t == batch_indices[j]
            nxt == GaeNextOf(batch_indices, j)
        IN ~buffer[t].done =>
              /\ t < Len(buffer) => nxt = t + 1
              /\ nxt = Bootstrap => t = Len(buffer)

\* C6: two consecutive transitions of the buffer that come from different
\* episodes are separated by done = true on the earlier one.  The trainer
\* ends an episode at max_steps_per_episode, or on an allowed exception,
\* without any transition being flagged.
C6_EpisodeBoundariesFlagged ==
    \A i \in 1..(Len(buffer) - 1) :
        buffer[i].ep # buffer[i + 1].ep => buffer[i].done

\* C7: update_networks called with fewer than 2*batch_size transitions
\* returns the insufficient_data record and changes neither the buffer, nor
\* the optimizers, the schedulers or the normalizer.
C7_InsufficientDataIsNoOp ==
    (last_op = "update_networks" /\ Len(entry.buffer) < 2 * batch_size)
    => /\ pc = "idle"
       /\ result = InsufficientMetrics(Len(entry.buffer))
       /\ Snapshot = entry

C7_Witness ==
    /\ last_op = "update_networks"
    /\ result.kind = "insufficient_data"
    /\ Len(buffer) > 0
    /\ Len(buffer) = 2 * batch_size - 1

\* C8: an update is atomic: when an error leaves update_networks, no
\* optimizer step and no scheduler step of that update has been applied and
\* the buffer is as it was; otherwise the buffer has been cleared.
C8_UpdateAtomic ==
    /\ result.kind = "raised_network" =>
          /\ actor_opt_steps = entry.actor_opt_steps
          /\ critic_opt_steps = entry.critic_opt_steps
          /\ actor_sched_steps = entry.actor_sched_steps
          /\ critic_sched_steps = entry.critic_sched_steps
          /\ SubSeq(buffer, 1, Len(entry.buffer)) = entry.buffer
    /\ Completed => buffer = <<>>

\* C9: no optimizer step is ever executed with a NaN/Inf loss: the update is
\* aborted before the step.
C9_NoStepOnNonFiniteLoss == params_finite

\* C10: each scheduler has been stepped exactly once per completed update:
\* never inside the minibatch loop, never by a call that ran no update.
C10_SchedulerOncePerUpdate ==
    /\ actor_sched_steps = completed_updates
    /\ critic_sched_steps = completed_updates
    /\ pc # "idle" => /\ actor_sched_steps = entry.actor_sched_steps
                      /\ critic_sched_steps = entry.critic_sched_steps

C10_Witness ==
    /\ pc = "idle"
    /\ completed_updates >= 2
    /\ actor_opt_steps > actor_sched_steps
    /\ errors > 0

C12_BufferWithinCapacity ==
    /\ Len(buffer) <= BufferCapacity
    /\ result.kind = "raised_overflow" =>
          /\ last_op = "update"
          /\ Len(entry.buffer) = BufferCapacity
          /\ buffer = entry.buffer
    /\ (last_op = "update" /\ pc = "idle" /\ result.kind = "empty") =>
          SubSeq(buffer, 1, Len(entry.buffer)) = entry.buffer

C12_Witness ==
    /\ result.kind = "raised_overflow"
    /\ Len(buffer) = BufferCapacity
    /\ buffer = entry.buffer

RECURSIVE SumAdv(_), SumVal(_)
SumAdv(ms) == IF ms = <<>> THEN 0 ELSE ms[1].adv + SumAdv(Tail(ms))
SumVal(ms) == IF ms = <<>> THEN 0 ELSE ms[1].val + SumVal(Tail(ms))

\* C13: every averaged metric of a completed pass is the sum of the
\* per-minibatch values divided by updates_performed: advantage_mean is the
\* average of the per-minibatch advantage means, value_mean that of the
\* per-minibatch value means.
C13_AveragesAreMeans ==
    (pc = "after_perform" /\ result.kind = "avg") =>
        LET n == result.updates_performed
        IN /\ n = Len(minibatch_means)
           /\ averaged.value_mean = <<SumVal(minibatch_means), n>>
           /\ averaged.advantage_mean = <<SumAdv(minibatch_means), n>>

RECURSIVE Pow(_, _), DiscountedRewards(_, _, _)
Pow(b, e) == IF e = 0 THEN 1 ELSE b * Pow(b, e - 1)

\* sum_{k=t}^{T} gm^(k-t) * rw[k]
DiscountedRewards(rw, gm, t) ==
    IF t > Len(rw) THEN 0 ELSE rw[t] + gm * DiscountedRewards(rw, gm, t + 1)

DoneOnlyAtEnd == \A i \in DOMAIN dones : dones[i] <=> (i = Len(dones))

\* C15: with done true only at the final index and lambda = 1,
\* advantages[t] = sum_{k=t}^{T-1} gamma^(k-t) * rewards[k]
\*                 + gamma^(T-t) * next_value - values[t]
\* and returns[t] = advantages[t] + values[t]      (t = 0..T-1; 1..T here).
C15_ClosedFormWithBootstrap ==
    (gpc = "returned" /\ gae_lambda = 1 /\ DoneOnlyAtEnd) =>
        \A i \in DOMAIN rewards :
            /\ advantages[i] = DiscountedRewards(rewards, gamma, i)
                                 + Pow(gamma, Len(rewards) - i + 1) * next_value
                                 - values[i]
            /\ returns[i] = advantages[i] + values[i]

\* C15 (amended): with done true only at the final index and lambda = 1,
\* advantages[t] = sum_{k=t}^{T-1} gamma^(k-t) * rewards[k] - values[t]: the
\* done of the final index masks the bootstrap, next_value does not enter;
\* returns[t] = advantages[t] + values[t].
C15_ClosedFormMasked ==
    (gpc = "returned" /\ gae_lambda = 1 /\ DoneOnlyAtEnd) =>
        \A i \in DOMAIN rewards :
            /\ advantages[i] = DiscountedRewards(rewards, gamma, i) - values[i]
            /\ returns[i] = advantages[i] + values[i]

C15_Witness ==
    /\ gpc = "returned" /\ gae_lambda = 1 /\ DoneOnlyAtEnd
    /\ Len(rewards) >= 3
    /\ gamma >= 2
    /\ next_value # 0
    /\ rewards[Len(rewards)] # 0
    /\ advantages[1] = DiscountedRewards(rewards, gamma, 1) - values[1]
    /\ advantages[1] >= 4

\* C16: when the last transition of episode 1 has done = true, the
\* advantages and returns of episode 1 are the same whether the recursion is
\* run on episode 1 alone (with any bootstrap value) or on episode 1 followed
\* by episode 2, whatever the rewards, values and bootstrap of episode 2.
C16_NoLeakAcrossDone ==
    gpc = "returned" =>
        \A k \in 1..(Len(rewards) - 1) :
            dones[k] =>
                \A nv \in GaeNumbers, i \in 1..k :
                    LET alone == GaeAt(i, SubSeq(rewards, 1, k), SubSeq(values, 1, k),
                                       SubSeq(dones, 1, k), nv, gamma, gae_lambda)
                    IN /\ advantages[i] = alone
                       /\ returns[i] = alone + values[i]

C16_Witness ==
    /\ gpc = "returned"
    /\ Len(rewards) >= 3
    /\ dones[2] /\ ~dones[1] /\ ~dones[3]
    /\ gamma >= 1 /\ gae_lambda = 1
    /\ rewards[3] # 0 /\ next_value # 0
    /\ advantages[3] # 0
    /\ advantages[1] = GaeAt(1, SubSeq(rewards, 1, 2), SubSeq(values, 1, 2),
                             SubSeq(dones, 1, 2), 0, gamma, gae_lambda)

AboveClip(x) == x.inf = 1 \/ (x.inf = 0 /\ x.val >= RatioScale + clip_range)
BelowClip(x) == x.inf = 0 /\ x.val <= RatioScale - clip_range

\* C17: for a positive advantage the per-sample policy loss
\* -min(ratio*A, clip(ratio, 1-eps, 1+eps)*A) is finite, is the same for
\* every ratio >= 1+eps, and does not decrease as the ratio falls below 1-eps.
C17_ClippedLossMonotone ==
    lpc = "done" =>
        /\ policy_loss.inf = 0
        /\ \A r2 \in Ratios :
              LET other == PolicyLossSample(r2, advantage, clip_range)
              IN /\ (AboveClip(ratio) /\ AboveClip(r2)) => other = policy_loss
                 /\ (BelowClip(ratio) /\ BelowClip(r2) /\ r2.val <= ratio.val)
                        => ExtLeq(policy_loss, other)

C17_Witness ==
    /\ lpc = "done"
    /\ ratio = PosInf
    /\ advantage > 1
    /\ policy_loss = Fin(-((RatioScale + clip_range) * advantage))

InEvaluate ==
    tpc \in {"evaluate", "eval_episode", "eval_episode_end", "eval_returned"}

\* C18: across an evaluate call update is never invoked: buffer, normalizer,
\* optimizers, schedulers and train_steps are, during the call and when it
\* returns, what they were when it was entered.
C18_EvaluateDoesNotTrain ==
    InEvaluate =>
        /\ Snapshot = eval_entry.agent
        /\ store_calls = eval_entry.store_calls
        /\ netVars = eval_entry.net
        /\ train_steps = eval_entry.train_steps

C18_Witness ==
    /\ tpc = "eval_returned"
    /\ evals_run = 1
    /\ last_op = "act"
    /\ Len(buffer) > 0
    /\ train_steps > 0
    /\ Snapshot = eval_entry.agent

\* C19: train stops early exactly when early_stop_patience evaluations in
\* a row have failed to improve: every evaluation either sets a new best
\* return and resets the no-improvement counter or increments the counter,
\* and train ends before train_episodes episodes only with the counter at
\* early_stop_patience.
C19_EarlyStopExactly ==
    /\ (evals_run > 0 /\ ~InEvaluate) =>
          (best_eval_return # NegInf \/ episodes_without_improvement > 0)
    /\ (tpc = "attribute_error" \/ (tpc = "returned" /\ next_episode < TrainEpisodes))
          => episodes_without_improvement >= early_stop_patience

\* C20: when train returns, train_returns holds one entry, in episode
\* order, for every training episode that ran to its end (also when its
\* return is 0), and eval_returns one entry for every evaluation that was run.
C20_ReturnsRecorded ==
    tpc = "returned" =>
        /\ train_returns = completed_returns
        /\ Len(eval_returns) = evals_run

\* C21: a trainer built by from_checkpoint from a checkpoint saved at
\* episode e holds the saved train_returns, eval_returns, train_steps,
\* avg_metrics and episode, and the train() that follows runs no episode
\* index below e.
C21_ResumesFromCheckpoint ==
    /\ tpc = "restored" =>
          /\ checkpoint # NoCheckpoint
          /\ CheckpointOf(episode, train_returns, eval_returns, train_steps,
                          avg_metrics) = checkpoint
    /\ (resumed_from >= 0 /\ tpc = "episode") => episode >= resumed_from

\* neither env.step nor the agent has raised an exception
NoExceptionRaised ==
    /\ ~env_raised
    /\ errors = 0
    /\ result.kind \notin {"raised_overflow", "raised_network"}

\* C22: with an environment and an agent that raise no exception, train
\* does not end with an exception: it runs at most train_episodes episodes
\* of at most max_steps_per_episode steps, the evaluation of episode 0
\* included, and uses the result of evaluate as a scalar.
C22_TrainEndsNormally ==
    NoExceptionRaised =>
        /\ tpc \notin {"attribute_error", "crashed"}
        /\ next_episode <= TrainEpisodes
        /\ step <= MaxStepsPerEpisode

\* C23: the normalizer statistics change only when Agent.update is entered,
\* by one fold of the incoming state, and the state is normalized for the
\* critic and the buffer under the statistics that already contain it; from
\* the start of a PPO update to its return, the buffer clear included, and
\* across act, the statistics stay as they are.
C23_NormalizerFoldsOnlyInUpdate ==
    [][ /\ (pc # "idle") => norm_count' = norm_count
        /\ (norm_count' # norm_count) =>
              /\ pc = "idle" /\ last_op' = "update"
              /\ norm_count' = norm_count + 1
              /\ store_calls' = store_calls + 1
        /\ (store_calls' # store_calls) =>
              /\ norm_count' = norm_count + 1
              /\ value_stats' = norm_count'
        /\ (buffer' = <<>> /\ buffer # <<>>) =>
              /\ norm_count' = norm_count
              /\ value_stats' = value_stats
      ]_vars

C23_Witness ==
    /\ completed_updates > 0
    /\ update_count > 0 \/ actor_opt_steps > 0
    /\ buffer = <<>>
    /\ pc = "idle"
    /\ norm_count = store_calls
    /\ norm_count >= 2 * MinSamplesFactor
    /\ value_stats = norm_count

\* C24: a PPO update started by Agent.update runs on at least
\* 2 * batch_size transitions with current_batch_size = batch_size, and when
\* num_epochs >= 1 its first pass makes at least two gradient steps, so such
\* an update returns neither the zero-filled metrics nor the
\* insufficient_data metrics.
C24_UpdateRunsFullBatches ==
    last_op = "update" =>
        /\ (pc # "idle") =>
              /\ cur_batch = batch_size
              /\ BufferLen(buffer) >= MinSamplesFactor * batch_size
        /\ result.kind \notin {"zero", "insufficient_data"}
        /\ (pc = "after_perform" /\ num_epochs >= 1) =>
              /\ result.kind = "avg"
              /\ result.updates_performed >= 2
              /\ result.batch_size_used = batch_size

C24_Witness ==
    /\ last_op = "update"
    /\ pc = "after_perform"
    /\ num_epochs >= 1
    /\ batch_size = MaxBatchSize
    /\ BufferLen(buffer) = MinSamplesFactor * batch_size + 1
    /\ result = AvgMetrics(2, batch_size)

====
